---- MODULE Spec2Model ----
(***************************************************************************)
(* Model of mic_buddy.py: the OBS connection manager (OBSManager), the     *)
(* overlay's animation state (OverlayWindow) and the callbacks of          *)
(* MicBuddyApp that carry the manager's signals to the Tk main loop.       *)
(***************************************************************************)
EXTENDS Integers, Sequences, FiniteSets, TLC

(***************************************************************************)
(* Bounds.                                                                 *)
(***************************************************************************)
\* _animate calls that a behaviour of SpecAnim may make
MaxFrames == 14
\* inputs in the list the host returns
MaxInputs == 3
\* protocol sessions the host keeps open at once
MaxSessions == 2
\* callbacks waiting in the Tk idle queue
MaxQueue == 3

(***************************************************************************)
(* IEEE-754 doubles.  Python floats are doubles; every value the overlay   *)
(* computes is a multiple of 2^-57 below 4, so a double is kept as a sign  *)
(* and a magnitude in units of 2^-57, split in two limbs of 28 bits        *)
(* (magnitude = hi * 2^28 + lo).  Sums are formed exactly and then rounded *)
(* to 53 significant bits, ties to even, as the hardware does.             *)
(***************************************************************************)
Limb == 2^28

Mag(h, l) == [neg |-> FALSE, hi |-> h, lo |-> l]

ZERO == Mag(0, 0)
ONE  == Mag(2 * Limb, 0)

FIsZero(a) == a.hi = 0 /\ a.lo = 0

FNeg(a) == IF FIsZero(a) THEN a ELSE [a EXCEPT !.neg = ~a.neg]

FAbs(a) == [a EXCEPT !.neg = FALSE]

MagLT(a, b) == a.hi < b.hi \/ (a.hi = b.hi /\ a.lo < b.lo)

MagLE(a, b) == ~MagLT(b, a)

\* a < b on doubles
FLt(a, b) ==
    IF a.neg /\ ~b.neg THEN ~(FIsZero(a) /\ FIsZero(b))
    ELSE IF ~a.neg /\ b.neg THEN FALSE
    ELSE IF a.neg THEN MagLT(b, a)
    ELSE MagLT(a, b)

FLe(a, b) == ~FLt(b, a)

\* exact |a| + |b|
MagAdd(a, b) ==
    LET s == a.lo + b.lo
    IN  Mag(a.hi + b.hi + (s \div Limb), s % Limb)

\* exact |a| - |b|, for |a| >= |b|
MagSub(a, b) ==
    IF a.lo >= b.lo THEN Mag(a.hi - b.hi, a.lo - b.lo)
    ELSE Mag(a.hi - b.hi - 1, a.lo + Limb - b.lo)

\* the exact real sum of two doubles
ExactAdd(a, b) ==
    IF a.neg = b.neg THEN [MagAdd(a, b) EXCEPT !.neg = a.neg]
    ELSE IF MagLT(a, b) THEN [MagSub(b, a) EXCEPT !.neg = b.neg]
    ELSE IF MagLT(b, a) THEN [MagSub(a, b) EXCEPT !.neg = a.neg]
    ELSE ZERO

\* spacing of the doubles around a magnitude, in units of 2^-57
Ulp(a) ==
    IF      a.hi >= 4 * Limb      THEN 64
    ELSE IF a.hi >= 2 * Limb      THEN 32
    ELSE IF a.hi >= Limb          THEN 16
    ELSE IF a.hi >= Limb \div 2   THEN 8
    ELSE IF a.hi >= Limb \div 4   THEN 4
    ELSE IF a.hi >= Limb \div 8   THEN 2
    ELSE 1

\* round to nearest double, ties to even
FRound(a) ==
    LET u  == Ulp(a)
        q  == a.lo \div u
        r  == a.lo % u
        up == 2 * r > u \/ (2 * r = u /\ q % 2 = 1)
        l  == (IF up THEN q + 1 ELSE q) * u
    IN  [neg |-> a.neg, hi |-> a.hi + (l \div Limb), lo |-> l % Limb]

\* a + b and a - b as Python computes them
FAdd(a, b) == FRound(ExactAdd(a, b))

FSub(a, b) == FAdd(a, FNeg(b))

\* n * a for a small natural n: the exact product, rounded once
RECURSIVE ExactTimes(_, _)
ExactTimes(n, a) == IF n = 0 THEN ZERO ELSE ExactAdd(ExactTimes(n - 1, a), a)

FTimes(n, a) == FRound(ExactTimes(n, a))

(***************************************************************************)
(* OverlayWindow constants.                                                *)
(***************************************************************************)
\* dt = 1.0 / ANIM_FPS = 1.0 / 30 = 0x1.1111111111111p-5
DT == Mag(17895697, 17895697)

\* step = fade_speed * dt = 3.0 * dt = 0x1.999999999999ap-4 (the double 0.1)
STEP == Mag(53687091, 53687092)

(***************************************************************************)
(* Strings the poll inspects are kept as sequences of characters, so that *)
(* Python's "k in kind" is a search for a contiguous subsequence.         *)
(***************************************************************************)
Contains(sub, str) ==
    \E i \in 0..(Len(str) - Len(sub)) : SubSeq(str, i + 1, i + Len(sub)) = sub

\* the markers of _poll_mute
Markers == {
    <<"w", "a", "s", "a", "p", "i", "_", "i", "n", "p", "u", "t">>,
    <<"p", "u", "l", "s", "e", "_", "i", "n", "p", "u", "t">>,
    <<"c", "o", "r", "e", "a", "u", "d", "i", "o", "_", "i", "n", "p", "u", "t">>,
    <<"a", "l", "s", "a", "_", "i", "n", "p", "u", "t">>,
    <<"j", "a", "c", "k", "_", "i", "n", "p", "u", "t">>,
    <<"a", "u", "d", "i", "o", "_", "i", "n", "p", "u", "t">> }

\* the string of inp.get("inputKind", "") or ""
KindMic     == <<"w", "a", "s", "a", "p", "i", "_", "i", "n", "p", "u", "t", "_", "c", "a", "p", "t", "u", "r", "e">>
KindCore    == <<"c", "o", "r", "e", "a", "u", "d", "i", "o", "_", "i", "n", "p", "u", "t", "_", "c", "a", "p", "t", "u", "r", "e">>
KindDesktop == <<"w", "a", "s", "a", "p", "i", "_", "o", "u", "t", "p", "u", "t", "_", "c", "a", "p", "t", "u", "r", "e">>
KindNone    == << >>

Kinds == {KindMic, KindDesktop, KindNone}

\* one entry of resp.inputs, with the mute flag the host holds for its name
Inputs == [kind : Kinds, muted : BOOLEAN]

RECURSIVE SeqsUpTo(_, _)
SeqsUpTo(S, n) ==
    IF n = 0 THEN {<< >>}
    ELSE LET shorter == SeqsUpTo(S, n - 1)
         IN  shorter \cup {Append(q, x) : q \in {r \in shorter : Len(r) = n - 1}, x \in S}

\* what get_input_list can return
HostInputLists == SeqsUpTo(Inputs, MaxInputs)

MicIn(m) == [kind |-> KindMic, muted |-> m]

\* the input lists the host returns in the behaviours of Spec: no input, one
\* microphone, a muted desktop capture before a live microphone, two
\* microphones
Scenes == {
    << >>,
    <<MicIn(FALSE)>>,
    <<MicIn(TRUE)>>,
    <<[kind |-> KindDesktop, muted |-> TRUE], MicIn(FALSE)>>,
    <<MicIn(FALSE), MicIn(TRUE)>>,
    <<MicIn(FALSE), MicIn(FALSE)>> }

\* self._ws = None
None == 0

Sessions == 1..MaxSessions

VARIABLES
    \* OverlayWindow
    visible,        \* _visible
    ov_all_live,    \* _all_live
    display_live,   \* _display_live
    target_live,    \* _target_live
    breathe_t,      \* _breathe_t
    drawn,          \* whether the last _animate call drew the face
    \* OBSManager
    ws,             \* _ws: a session, or None
    connected,      \* _connected
    running,        \* _running
    obsws,          \* whether "import obsws_python" succeeded
    open,           \* the protocol sessions opened and not yet closed
    \* the threads: "loop" runs OBSManager._loop, "quit" runs _on_quit
    pc,             \* where each thread is
    ret,            \* where it continues after the method it is in
    dws,            \* the local ws of _disconnect
    cval,           \* the argument of _on_connection_change
    cws,            \* the ReqClient that _connect has built and not yet stored
    obs_up,         \* local of _loop
    was_obs_running, \* local of _loop
    result,         \* local of _loop: "None", "True" or "False"
    inputs,         \* local of _poll_mute
    mic_inputs,     \* local of _poll_mute
    idx,            \* position of "for inp in mic_inputs"
    \* MicBuddyApp and the Tk main loop
    app_all_live,   \* MicBuddyApp._all_live
    app_connected,  \* MicBuddyApp._connected
    queue,          \* callbacks passed to root.after_idle, oldest first
    mainAlive,      \* FALSE once root.destroy has run
    mpc,            \* where the main thread is inside _update_ui
    tray_icon,      \* colour of self._tray.icon
    tray_menu,      \* the two status lines of self._tray.menu
    \* history of the tick the loop is in (of the last one, between ticks)
    tk_branch,      \* what lines 167-170 did
    tk_conn,        \* connectivity signals the loop raised, in order
    tk_state,       \* mute-state signals the loop raised, in order
    tk_polls,       \* _poll_mute calls
    tk_hs,          \* ReqClient constructions
    \* history of the _poll_mute call in progress
    pl_listed,      \* whether get_input_list was answered
    pl_mutes,       \* get_input_mute requests made
    pl_fault,       \* the request that failed, if any
    \* history of the animation
    frames,         \* number of _animate calls so far
    since,          \* _animate calls since the last set_state call
    startDist,      \* |target - display| right after that call
    \* history of the signals the manager raised
    sig_conn,       \* the last connectivity signal (FALSE before any)
    sig_state,      \* the last mute-state signal ("None" before any)
    sig_queued      \* the values of the signals whose _update_ui is queued

ovVars == <<visible, ov_all_live, display_live, target_live, breathe_t, drawn>>

mgrVars == <<ws, connected, running, obsws, open>>

thrVars == <<pc, ret, dws, cval>>

loopVars == <<cws, obs_up, was_obs_running, result, inputs, mic_inputs, idx>>

appVars == <<app_all_live, app_connected, queue, mainAlive, mpc, tray_icon, tray_menu>>

tickVars == <<tk_branch, tk_conn, tk_state, tk_polls, tk_hs, pl_listed, pl_mutes, pl_fault>>

histAnim == <<frames, since, startDist>>

histSig == <<sig_conn, sig_state, sig_queued>>

vars == <<ovVars, mgrVars, thrVars, loopVars, appVars, tickVars, histAnim, histSig>>

(***************************************************************************)
(* OverlayWindow.                                                          *)
(***************************************************************************)
\* slip: the step is added without the test that snaps to the target
ChaseLevel_NoSnap(display, target) ==
    LET diff == FSub(target, display)
    IN  FAdd(display, IF FLt(ZERO, diff) THEN STEP ELSE FNeg(STEP))

\* slip: the sign of the step is taken the wrong way round
ChaseLevel_Away(display, target) ==
    LET diff == FSub(target, display)
    IN  IF FLt(FAbs(diff), STEP) THEN target
        ELSE FAdd(display, IF FLt(ZERO, diff) THEN FNeg(STEP) ELSE STEP)

\* the fade of _animate: the new _display_live
ChaseLevel(display, target) ==
    LET diff == FSub(target, display)
    IN  IF FLt(FAbs(diff), STEP) THEN target
        ELSE FAdd(display, IF FLt(ZERO, diff) THEN STEP ELSE FNeg(STEP))

\* OverlayWindow.show
show ==
    /\ visible' = IF ~visible THEN TRUE ELSE visible
    /\ UNCHANGED <<ov_all_live, display_live, target_live, breathe_t, drawn>>

\* OverlayWindow.hide
hide ==
    /\ visible' = IF visible THEN FALSE ELSE visible
    /\ UNCHANGED <<ov_all_live, display_live, target_live, breathe_t, drawn>>

\* slip: set_state also snaps the displayed level to the new target
set_state_Snap(b) ==
    /\ ov_all_live' = b
    /\ target_live' = IF b THEN ONE ELSE ZERO
    /\ display_live' = IF b THEN ONE ELSE ZERO
    /\ UNCHANGED <<visible, breathe_t, drawn>>

\* OverlayWindow.set_state
set_state(b) ==
    /\ ov_all_live' = b
    /\ target_live' = IF b THEN ONE ELSE ZERO
    /\ UNCHANGED <<visible, display_live, breathe_t, drawn>>

\* slip: the whole callback body sits under "if self._visible"
animate_FreezeHidden ==
    /\ display_live' = IF visible THEN ChaseLevel(display_live, target_live)
                       ELSE display_live
    /\ breathe_t' = IF visible THEN FAdd(breathe_t, DT) ELSE breathe_t
    /\ drawn' = visible
    /\ UNCHANGED <<visible, ov_all_live, target_live>>

\* OverlayWindow._animate: one timer callback
animate ==
    /\ display_live' = ChaseLevel(display_live, target_live)
    /\ breathe_t' = FAdd(breathe_t, DT)
    /\ drawn' = visible
    /\ UNCHANGED <<visible, ov_all_live, target_live>>

(***************************************************************************)
(* MicBuddyApp: the callbacks the manager calls from its own threads, and  *)
(* the callbacks the Tk main loop runs from its idle queue.                *)
(***************************************************************************)
Threads == {"loop", "quit"}

Goto(t, l) == pc' = [pc EXCEPT ![t] = l]

\* root.after_idle(cb) for each cb of cbs; once the root is destroyed the call
\* raises and the except clause of the caller drops it
AfterIdle(cbs) == queue' = IF mainAlive THEN queue \o cbs ELSE queue

HasRoom(n) == ~mainAlive \/ Len(queue) + n <= MaxQueue

\* MicBuddyApp._make_menu: the two status lines
make_menu == [conn |-> app_connected, mic |-> app_all_live]

\* _on_connection_change, line 473
conn_write(t) ==
    /\ pc[t] = "conn_write"
    /\ app_connected' = cval[t]
    /\ Goto(t, "conn_idle")
    /\ UNCHANGED <<ovVars, mgrVars, ret, dws, cval, loopVars, tickVars, histAnim, histSig>>
    /\ UNCHANGED <<app_all_live, queue, mainAlive, mpc, tray_icon, tray_menu>>

\* slip: the callback calls overlay.show or overlay.hide itself
conn_idle_Direct(t) ==
    /\ pc[t] = "conn_idle"
    /\ HasRoom(1)
    /\ visible' = cval[t]
    /\ AfterIdle(<<"tray_menu">>)
    /\ Goto(t, ret[t])
    /\ UNCHANGED <<ov_all_live, display_live, target_live, breathe_t, drawn>>
    /\ UNCHANGED <<mgrVars, ret, dws, cval, loopVars, tickVars, histAnim, histSig>>
    /\ UNCHANGED <<app_all_live, app_connected, mainAlive, mpc, tray_icon, tray_menu>>

\* _on_connection_change, lines 474-481
conn_idle(t) ==
    /\ pc[t] = "conn_idle"
    /\ HasRoom(2)
    /\ AfterIdle(<<IF cval[t] THEN "show" ELSE "hide", "tray_menu">>)
    /\ Goto(t, ret[t])
    /\ UNCHANGED <<ovVars, mgrVars, ret, dws, cval, loopVars, tickVars, histAnim, histSig>>
    /\ UNCHANGED <<app_all_live, app_connected, mainAlive, mpc, tray_icon, tray_menu>>

\* _on_state_change, line 464
state_write ==
    /\ pc["loop"] = "state_write"
    /\ app_all_live' = (result = "True")
    /\ Goto("loop", "state_idle")
    /\ UNCHANGED <<ovVars, mgrVars, ret, dws, cval, loopVars, tickVars, histAnim, histSig>>
    /\ UNCHANGED <<app_connected, queue, mainAlive, mpc, tray_icon, tray_menu>>

\* _on_state_change, lines 466-469, and the return to line 187
state_idle ==
    /\ pc["loop"] = "state_idle"
    /\ HasRoom(1)
    /\ AfterIdle(<<"update_ui">>)
    /\ sig_queued' = IF mainAlive THEN Append(sig_queued, result = "True")
                   ELSE sig_queued
    /\ Goto("loop", "idle")
    /\ UNCHANGED <<ovVars, mgrVars, ret, dws, cval, loopVars, tickVars, histAnim, sig_conn, sig_state>>
    /\ UNCHANGED <<app_all_live, app_connected, mainAlive, mpc, tray_icon, tray_menu>>

MainTakes(cb) ==
    /\ mainAlive
    /\ mpc = "idle"
    /\ queue # << >>
    /\ Head(queue) = cb
    /\ queue' = Tail(queue)

\* the main loop runs overlay.show
m_show ==
    /\ MainTakes("show")
    /\ show
    /\ UNCHANGED <<mgrVars, thrVars, loopVars, tickVars, histAnim, histSig>>
    /\ UNCHANGED <<app_all_live, app_connected, mainAlive, mpc, tray_icon, tray_menu>>

\* the main loop runs overlay.hide
m_hide ==
    /\ MainTakes("hide")
    /\ hide
    /\ UNCHANGED <<mgrVars, thrVars, loopVars, tickVars, histAnim, histSig>>
    /\ UNCHANGED <<app_all_live, app_connected, mainAlive, mpc, tray_icon, tray_menu>>

\* the main loop runs _update_tray_menu
m_tray_menu ==
    /\ MainTakes("tray_menu")
    /\ tray_menu' = make_menu
    /\ UNCHANGED <<ovVars, mgrVars, thrVars, loopVars, tickVars, histAnim, histSig>>
    /\ UNCHANGED <<app_all_live, app_connected, mainAlive, mpc, tray_icon>>

\* slip: _update_ui hands the overlay its own flag back
m_update_ui_NoForward ==
    /\ MainTakes("update_ui")
    /\ set_state(ov_all_live)
    /\ mpc' = "ui_icon"
    /\ sig_queued' = Tail(sig_queued)
    /\ UNCHANGED <<mgrVars, thrVars, loopVars, tickVars, histAnim, sig_conn, sig_state>>
    /\ UNCHANGED <<app_all_live, app_connected, mainAlive, tray_icon, tray_menu>>

\* the main loop runs _update_ui: line 485
m_update_ui ==
    /\ MainTakes("update_ui")
    /\ set_state(app_all_live)
    /\ mpc' = "ui_icon"
    /\ sig_queued' = Tail(sig_queued)
    /\ UNCHANGED <<mgrVars, thrVars, loopVars, tickVars, histAnim, sig_conn, sig_state>>
    /\ UNCHANGED <<app_all_live, app_connected, mainAlive, tray_icon, tray_menu>>

\* _update_ui, line 486: _update_tray_icon
m_ui_icon ==
    /\ mpc = "ui_icon"
    /\ tray_icon' = IF app_all_live THEN "PINK" ELSE "PURPLE"
    /\ mpc' = "ui_menu"
    /\ UNCHANGED <<ovVars, mgrVars, thrVars, loopVars, tickVars, histAnim, histSig>>
    /\ UNCHANGED <<app_all_live, app_connected, queue, mainAlive, tray_menu>>

\* _update_ui, line 487: _update_tray_menu
m_ui_menu ==
    /\ mpc = "ui_menu"
    /\ tray_menu' = make_menu
    /\ mpc' = "idle"
    /\ UNCHANGED <<ovVars, mgrVars, thrVars, loopVars, tickVars, histAnim, histSig>>
    /\ UNCHANGED <<app_all_live, app_connected, queue, mainAlive, tray_icon>>

\* the main loop runs root.destroy: mainloop returns, the idle queue is gone
m_destroy ==
    /\ MainTakes("destroy")
    /\ mainAlive' = FALSE
    /\ UNCHANGED <<ovVars, mgrVars, thrVars, loopVars, tickVars, histAnim, histSig>>
    /\ UNCHANGED <<app_all_live, app_connected, mpc, tray_icon, tray_menu>>

(***************************************************************************)
(* OBSManager.                                                             *)
(***************************************************************************)
\* the kind filter of _poll_mute
IsMicKind(kind) == \E k \in Markers : Contains(k, kind)

MicInputs(lst) == SelectSeq(lst, LAMBDA inp : IsMicKind(inp.kind))

\* lines 144-156 when every get_input_mute is answered: the loop over
\* mic_inputs with its break
RECURSIVE AllLive(_)
AllLive(mics) ==
    IF mics = << >> THEN TRUE
    ELSE IF Head(mics).muted THEN FALSE
    ELSE AllLive(Tail(mics))

\* lines 128-156 when every request is answered: the value _poll_mute returns
\* for the list lst
PollValue(lst) ==
    IF MicInputs(lst) = << >> THEN FALSE ELSE AllLive(MicInputs(lst))

\* a session no thread holds and the host does not have open
FreeSessions ==
    Sessions \ (open \cup {ws, cws} \cup {dws[t] : t \in Threads})

\* the signal of a thread; the loop's are recorded for its tick
Raised(t, c) ==
    /\ tk_conn' = IF t = "loop" THEN Append(tk_conn, c) ELSE tk_conn
    /\ sig_conn' = c

\* _connect, lines 97-100 and 103-105: the handshake
c_open ==
    /\ pc["loop"] = "c_open"
    /\ IF ~obsws
       THEN /\ Goto("loop", ret["loop"])
            /\ UNCHANGED <<ws, connected, open, cws, tk_hs>>
       ELSE /\ tk_hs' = tk_hs + 1
            /\ \/ /\ FreeSessions # {}
                  /\ LET s == CHOOSE x \in FreeSessions :
                                  \A y \in FreeSessions : x <= y
                     IN  /\ cws' = s
                         /\ open' = open \cup {s}
                  /\ Goto("loop", "c_store")
                  /\ UNCHANGED <<ws, connected>>
               \/ /\ ws' = None
                  /\ connected' = FALSE
                  /\ Goto("loop", ret["loop"])
                  /\ UNCHANGED <<open, cws>>
    /\ UNCHANGED <<ovVars, running, obsws, ret, dws, cval, appVars, histAnim, histSig>>
    /\ UNCHANGED <<obs_up, was_obs_running, result, inputs, mic_inputs, idx>>
    /\ UNCHANGED <<tk_branch, tk_conn, tk_state, tk_polls, pl_listed, pl_mutes, pl_fault>>

\* _connect, line 100: the assignment to self._ws
c_store ==
    /\ pc["loop"] = "c_store"
    /\ ws' = cws
    /\ cws' = None
    /\ Goto("loop", "c_flag")
    /\ UNCHANGED <<ovVars, connected, running, obsws, open, ret, dws, cval>>
    /\ UNCHANGED <<obs_up, was_obs_running, result, inputs, mic_inputs, idx>>
    /\ UNCHANGED <<appVars, tickVars, histAnim, histSig>>

\* _connect, lines 101-102
c_flag ==
    /\ pc["loop"] = "c_flag"
    /\ connected' = TRUE
    /\ cval' = [cval EXCEPT !["loop"] = TRUE]
    /\ Raised("loop", TRUE)
    /\ Goto("loop", "conn_write")
    /\ UNCHANGED <<ovVars, ws, running, obsws, open, ret, dws, loopVars>>
    /\ UNCHANGED <<appVars, histAnim, sig_state, sig_queued>>
    /\ UNCHANGED <<tk_branch, tk_state, tk_polls, tk_hs, pl_listed, pl_mutes, pl_fault>>

\* slip: _disconnect leaves self._connected as it is
d_flag_Skip(t) ==
    /\ pc[t] = "d_flag"
    /\ Goto(t, "d_read")
    /\ UNCHANGED <<ovVars, mgrVars, ret, dws, cval, loopVars>>
    /\ UNCHANGED <<appVars, tickVars, histAnim, histSig>>

\* _disconnect, line 108
d_flag(t) ==
    /\ pc[t] = "d_flag"
    /\ connected' = FALSE
    /\ Goto(t, "d_read")
    /\ UNCHANGED <<ovVars, ws, running, obsws, open, ret, dws, cval, loopVars>>
    /\ UNCHANGED <<appVars, tickVars, histAnim, histSig>>

\* _disconnect, line 109
d_read(t) ==
    /\ pc[t] = "d_read"
    /\ dws' = [dws EXCEPT ![t] = ws]
    /\ Goto(t, "d_clear")
    /\ UNCHANGED <<ovVars, mgrVars, ret, cval, loopVars, appVars, tickVars, histAnim, histSig>>

\* slip: _disconnect leaves the handle in self._ws
d_clear_Keep(t) ==
    /\ pc[t] = "d_clear"
    /\ Goto(t, "d_close")
    /\ UNCHANGED <<ovVars, mgrVars, ret, dws, cval>>
    /\ UNCHANGED <<loopVars, appVars, tickVars, histAnim, histSig>>

\* _disconnect, line 110
d_clear(t) ==
    /\ pc[t] = "d_clear"
    /\ ws' = None
    /\ Goto(t, "d_close")
    /\ UNCHANGED <<ovVars, connected, running, obsws, open, ret, dws, cval>>
    /\ UNCHANGED <<loopVars, appVars, tickVars, histAnim, histSig>>

\* _disconnect, lines 111-120: close the session, then raise the signal
d_close(t) ==
    /\ pc[t] = "d_close"
    /\ open' = IF dws[t] # None THEN open \ {dws[t]} ELSE open
    /\ dws' = [dws EXCEPT ![t] = None]
    /\ cval' = [cval EXCEPT ![t] = FALSE]
    /\ Raised(t, FALSE)
    /\ Goto(t, "conn_write")
    /\ UNCHANGED <<ovVars, ws, connected, running, obsws, ret, loopVars>>
    /\ UNCHANGED <<appVars, histAnim, sig_state, sig_queued>>
    /\ UNCHANGED <<tk_branch, tk_state, tk_polls, tk_hs, pl_listed, pl_mutes, pl_fault>>

\* a request on the session self._ws names can be answered
Answers == ws # None /\ ws \in open

\* _poll_mute, lines 124-125
p_check ==
    /\ pc["loop"] = "p_check"
    /\ tk_polls' = tk_polls + 1
    /\ IF ws = None
       THEN result' = "None" /\ Goto("loop", "p_ret")
       ELSE result' = result /\ Goto("loop", "p_list")
    /\ UNCHANGED <<ovVars, mgrVars, ret, dws, cval, appVars, histAnim, histSig>>
    /\ UNCHANGED <<cws, obs_up, was_obs_running, inputs, mic_inputs, idx>>
    /\ UNCHANGED <<tk_branch, tk_conn, tk_state, tk_hs, pl_listed, pl_mutes, pl_fault>>

\* slip: an empty mic_inputs falls through to "return all_live"
list_inputs_Vacuous(lst) ==
    /\ pc["loop"] = "p_list"
    /\ Answers
    /\ inputs' = lst
    /\ mic_inputs' = MicInputs(lst)
    /\ idx' = 1
    /\ pl_listed' = TRUE
    /\ IF MicInputs(lst) = << >>
       THEN result' = "True" /\ Goto("loop", "p_ret")
       ELSE result' = result /\ Goto("loop", "p_mute")
    /\ UNCHANGED <<ovVars, mgrVars, ret, dws, cval, appVars, histAnim, histSig>>
    /\ UNCHANGED <<cws, obs_up, was_obs_running>>
    /\ UNCHANGED <<tk_branch, tk_conn, tk_state, tk_polls, tk_hs, pl_mutes, pl_fault>>

\* _poll_mute, lines 127-144: get_input_list answers lst; the filter
list_inputs(lst) ==
    /\ pc["loop"] = "p_list"
    /\ Answers
    /\ inputs' = lst
    /\ mic_inputs' = MicInputs(lst)
    /\ idx' = 1
    /\ pl_listed' = TRUE
    /\ IF MicInputs(lst) = << >>
       THEN result' = "False" /\ Goto("loop", "p_ret")
       ELSE result' = result /\ Goto("loop", "p_mute")
    /\ UNCHANGED <<ovVars, mgrVars, ret, dws, cval, appVars, histAnim, histSig>>
    /\ UNCHANGED <<cws, obs_up, was_obs_running>>
    /\ UNCHANGED <<tk_branch, tk_conn, tk_state, tk_polls, tk_hs, pl_mutes, pl_fault>>

\* _poll_mute, lines 127 and 157-160: get_input_list raises (the request
\* fails or times out, or self._ws is None by now); _disconnect, return None
list_fault ==
    /\ pc["loop"] = "p_list"
    /\ result' = "None"
    /\ pl_fault' = "list"
    /\ pc' = [pc EXCEPT !["loop"] = "d_flag"]
    /\ ret' = [ret EXCEPT !["loop"] = "p_ret"]
    /\ UNCHANGED <<ovVars, mgrVars, dws, cval, appVars, histAnim, histSig>>
    /\ UNCHANGED <<cws, obs_up, was_obs_running, inputs, mic_inputs, idx>>
    /\ UNCHANGED <<tk_branch, tk_conn, tk_state, tk_polls, tk_hs, pl_listed, pl_mutes>>

\* get_input_list in the behaviours of Spec
p_list == \E lst \in Scenes : list_inputs(lst)

\* slip: the except clause of lines 150-151 sets muted = False
QueryMuted_Ignore(answered, flag) == IF answered THEN flag ELSE FALSE

\* lines 147-151: the value of muted; a request that raises counts as muted
QueryMuted(answered, flag) == IF answered THEN flag ELSE TRUE

\* slip: the loop leaves at the first input that is not muted
AfterMute_BreakOnLive(muted) ==
    IF ~muted THEN "True"
    ELSE IF idx = Len(mic_inputs) THEN "False"
    ELSE "next"

\* what one pass of "for inp in mic_inputs" leaves in the locals, given the
\* value of muted (lines 152-156): break and return False, or go on
AfterMute(muted) ==
    IF muted THEN "False"
    ELSE IF idx = Len(mic_inputs) THEN "True"
    ELSE "next"

\* _poll_mute, lines 145-156: one pass of the loop over mic_inputs
p_mute ==
    /\ pc["loop"] = "p_mute"
    /\ pl_mutes' = pl_mutes + 1
    /\ \E answered \in BOOLEAN :
          /\ answered => Answers
          /\ pl_fault' = IF answered THEN pl_fault ELSE "mute"
          /\ LET after == AfterMute(QueryMuted(answered, mic_inputs[idx].muted))
             IN  IF after = "next"
                 THEN idx' = idx + 1 /\ result' = result /\ UNCHANGED pc
                 ELSE idx' = idx /\ result' = after /\ Goto("loop", "p_ret")
    /\ UNCHANGED <<ovVars, mgrVars, ret, dws, cval, appVars, histAnim, histSig>>
    /\ UNCHANGED <<cws, obs_up, was_obs_running, inputs, mic_inputs>>
    /\ UNCHANGED <<tk_branch, tk_conn, tk_state, tk_polls, tk_hs, pl_listed>>

\* slip: the signal is raised only when the value differs from the last one
p_ret_OnChange ==
    /\ pc["loop"] = "p_ret"
    /\ IF result # "None" /\ result # sig_state
       THEN /\ tk_state' = Append(tk_state, result = "True")
            /\ sig_state' = result
            /\ Goto("loop", "state_write")
       ELSE /\ tk_state' = tk_state
            /\ sig_state' = sig_state
            /\ Goto("loop", "idle")
    /\ inputs' = << >>
    /\ mic_inputs' = << >>
    /\ idx' = 1
    /\ pl_listed' = FALSE
    /\ pl_mutes' = 0
    /\ pl_fault' = "none"
    /\ UNCHANGED <<ovVars, mgrVars, ret, dws, cval, appVars, histAnim, sig_conn, sig_queued>>
    /\ UNCHANGED <<cws, obs_up, was_obs_running, result>>
    /\ UNCHANGED <<tk_branch, tk_conn, tk_polls, tk_hs>>

\* _poll_mute returns (its locals are gone), and _loop, lines 183-185
p_ret ==
    /\ pc["loop"] = "p_ret"
    /\ IF result # "None"
       THEN /\ tk_state' = Append(tk_state, result = "True")
            /\ sig_state' = result
            /\ Goto("loop", "state_write")
       ELSE /\ tk_state' = tk_state
            /\ sig_state' = sig_state
            /\ Goto("loop", "idle")
    /\ inputs' = << >>
    /\ mic_inputs' = << >>
    /\ idx' = 1
    /\ pl_listed' = FALSE
    /\ pl_mutes' = 0
    /\ pl_fault' = "none"
    /\ UNCHANGED <<ovVars, mgrVars, ret, dws, cval, appVars, histAnim, sig_conn, sig_queued>>
    /\ UNCHANGED <<cws, obs_up, was_obs_running, result>>
    /\ UNCHANGED <<tk_branch, tk_conn, tk_polls, tk_hs>>

\* _loop, lines 187 and 164-165: the sleep ends, the loop condition is read
\* and, if it holds, the next tick starts by probing for the host process
l_tick ==
    /\ pc["loop"] = "idle"
    /\ IF running
       THEN /\ \E up \in BOOLEAN : obs_up' = up
            /\ Goto("loop", "reconcile")
            /\ tk_branch' = "start"
            /\ tk_conn' = << >>
            /\ tk_state' = << >>
            /\ tk_polls' = 0
            /\ tk_hs' = 0
            /\ result' = "None"
       ELSE /\ Goto("loop", "done")
            /\ UNCHANGED <<obs_up, result>>
            /\ UNCHANGED <<tk_branch, tk_conn, tk_state, tk_polls, tk_hs>>
    /\ UNCHANGED <<ovVars, mgrVars, ret, dws, cval, appVars, histAnim, histSig>>
    /\ UNCHANGED <<cws, was_obs_running, inputs, mic_inputs, idx>>
    /\ UNCHANGED <<pl_listed, pl_mutes, pl_fault>>

\* slip: the reconnect of line 167 waits for the host to be seen starting
l_reconcile_NoRetry ==
    /\ pc["loop"] = "reconcile"
    /\ IF obs_up /\ ~connected /\ ~was_obs_running
       THEN /\ tk_branch' = "connect"
            /\ pc' = [pc EXCEPT !["loop"] = "c_open"]
            /\ ret' = [ret EXCEPT !["loop"] = "closed"]
       ELSE IF ~obs_up /\ connected
       THEN /\ tk_branch' = "disconnect"
            /\ pc' = [pc EXCEPT !["loop"] = "d_flag"]
            /\ ret' = [ret EXCEPT !["loop"] = "closed"]
       ELSE /\ tk_branch' = "skip"
            /\ Goto("loop", "closed")
            /\ UNCHANGED ret
    /\ UNCHANGED <<ovVars, mgrVars, dws, cval, loopVars, appVars, histAnim, histSig>>
    /\ UNCHANGED <<tk_conn, tk_state, tk_polls, tk_hs, pl_listed, pl_mutes, pl_fault>>

\* _loop, lines 167-170
l_reconcile ==
    /\ pc["loop"] = "reconcile"
    /\ IF obs_up /\ ~connected
       THEN /\ tk_branch' = "connect"
            /\ pc' = [pc EXCEPT !["loop"] = "c_open"]
            /\ ret' = [ret EXCEPT !["loop"] = "closed"]
       ELSE IF ~obs_up /\ connected
       THEN /\ tk_branch' = "disconnect"
            /\ pc' = [pc EXCEPT !["loop"] = "d_flag"]
            /\ ret' = [ret EXCEPT !["loop"] = "closed"]
       ELSE /\ tk_branch' = "skip"
            /\ Goto("loop", "closed")
            /\ UNCHANGED ret
    /\ UNCHANGED <<ovVars, mgrVars, dws, cval, loopVars, appVars, histAnim, histSig>>
    /\ UNCHANGED <<tk_conn, tk_state, tk_polls, tk_hs, pl_listed, pl_mutes, pl_fault>>

\* _loop, lines 172-174
l_closed ==
    /\ pc["loop"] = "closed"
    /\ IF ~obs_up /\ was_obs_running
       THEN /\ cval' = [cval EXCEPT !["loop"] = FALSE]
            /\ Raised("loop", FALSE)
            /\ pc' = [pc EXCEPT !["loop"] = "conn_write"]
            /\ ret' = [ret EXCEPT !["loop"] = "appeared"]
       ELSE /\ Goto("loop", "appeared")
            /\ UNCHANGED <<cval, ret, tk_conn, sig_conn>>
    /\ UNCHANGED <<ovVars, mgrVars, dws, loopVars, appVars, histAnim, sig_state, sig_queued>>
    /\ UNCHANGED <<tk_branch, tk_state, tk_polls, tk_hs, pl_listed, pl_mutes, pl_fault>>

\* _loop, lines 175-180
l_appeared ==
    /\ pc["loop"] = "appeared"
    /\ was_obs_running' = obs_up
    /\ IF obs_up /\ ~was_obs_running /\ ~connected
       THEN /\ pc' = [pc EXCEPT !["loop"] = "c_open"]
            /\ ret' = [ret EXCEPT !["loop"] = "pollcheck"]
       ELSE /\ Goto("loop", "pollcheck")
            /\ UNCHANGED ret
    /\ UNCHANGED <<ovVars, mgrVars, dws, cval, appVars, tickVars, histAnim, histSig>>
    /\ UNCHANGED <<cws, obs_up, result, inputs, mic_inputs, idx>>

\* _loop, line 182
l_pollcheck ==
    /\ pc["loop"] = "pollcheck"
    /\ IF connected THEN Goto("loop", "p_check") ELSE Goto("loop", "idle")
    /\ UNCHANGED <<ovVars, mgrVars, ret, dws, cval, loopVars, appVars, tickVars, histAnim, histSig>>

\* MicBuddyApp._on_quit calls OBSManager.stop: line 75, then _disconnect
q_stop ==
    /\ pc["quit"] = "idle"
    /\ running' = FALSE
    /\ pc' = [pc EXCEPT !["quit"] = "d_flag"]
    /\ ret' = [ret EXCEPT !["quit"] = "q_destroy"]
    /\ UNCHANGED <<ovVars, ws, connected, obsws, open, dws, cval, loopVars>>
    /\ UNCHANGED <<appVars, tickVars, histAnim, histSig>>

\* _on_quit, lines 537-544, after stop has returned
q_destroy ==
    /\ pc["quit"] = "q_destroy"
    /\ HasRoom(1)
    /\ AfterIdle(<<"destroy">>)
    /\ Goto("quit", "done")
    /\ UNCHANGED <<ovVars, mgrVars, ret, dws, cval, loopVars, tickVars, histAnim, histSig>>
    /\ UNCHANGED <<app_all_live, app_connected, mainAlive, mpc, tray_icon, tray_menu>>

(***************************************************************************)
(* The program: MicBuddyApp.__init__ has run, the polling thread is about  *)
(* to start its first tick, the main loop is idle.                         *)
(***************************************************************************)
\* OverlayWindow.__init__ ends with one _animate call
InitOverlay ==
    /\ visible = FALSE
    /\ ov_all_live = FALSE
    /\ display_live = ZERO
    /\ target_live = ZERO
    /\ breathe_t = DT
    /\ drawn = FALSE
    /\ frames = 1
    /\ since = 1
    /\ startDist = ZERO

\* OBSManager.__init__
InitManager ==
    /\ ws = None
    /\ connected = FALSE
    /\ running = TRUE
    /\ obsws \in BOOLEAN
    /\ open = {}
    /\ pc = [t \in Threads |-> "idle"]
    /\ ret = [t \in Threads |-> "idle"]
    /\ dws = [t \in Threads |-> None]
    /\ cval = [t \in Threads |-> FALSE]
    /\ cws = None
    /\ obs_up = FALSE
    /\ was_obs_running = FALSE
    /\ result = "None"
    /\ inputs = << >>
    /\ mic_inputs = << >>
    /\ idx = 1
    /\ tk_branch = "init"
    /\ tk_conn = << >>
    /\ tk_state = << >>
    /\ tk_polls = 0
    /\ tk_hs = 0
    /\ pl_listed = FALSE
    /\ pl_mutes = 0
    /\ pl_fault = "none"
    /\ sig_conn = FALSE
    /\ sig_state = "None"
    /\ sig_queued = << >>

\* MicBuddyApp.__init__ and _build_tray
InitApp ==
    /\ app_all_live = FALSE
    /\ app_connected = FALSE
    /\ queue = << >>
    /\ mainAlive = TRUE
    /\ mpc = "idle"
    /\ tray_icon = "PURPLE"
    /\ tray_menu = [conn |-> FALSE, mic |-> FALSE]

Init == InitOverlay /\ InitManager /\ InitApp

Callbacks == \E t \in Threads : conn_write(t) \/ conn_idle(t)

Disconnect == \E t \in Threads : d_flag(t) \/ d_read(t) \/ d_clear(t) \/ d_close(t)

Next ==
    \/ l_tick \/ l_reconcile \/ l_closed \/ l_appeared \/ l_pollcheck
    \/ c_open \/ c_store \/ c_flag
    \/ Disconnect
    \/ p_check \/ p_list \/ list_fault \/ p_mute \/ p_ret
    \/ Callbacks \/ state_write \/ state_idle
    \/ q_stop \/ q_destroy
    \/ m_show \/ m_hide \/ m_tray_menu \/ m_update_ui \/ m_ui_icon \/ m_ui_menu
    \/ m_destroy

Spec == Init /\ [][Next]_vars

(***************************************************************************)
(* _poll_mute on its own: the manager is connected, as after a first tick  *)
(* that found the host and whose signal the main loop has handled, and     *)
(* the loop calls _poll_mute again and again; the host answers with any    *)
(* list of at most MaxInputs inputs.                                       *)
(***************************************************************************)
InitPoll ==
    /\ visible = TRUE
    /\ ov_all_live = FALSE
    /\ display_live = ZERO
    /\ target_live = ZERO
    /\ breathe_t = DT
    /\ drawn = FALSE
    /\ frames = 1
    /\ since = 1
    /\ startDist = ZERO
    /\ app_all_live = FALSE
    /\ app_connected = TRUE
    /\ queue = << >>
    /\ mainAlive = TRUE
    /\ mpc = "idle"
    /\ tray_icon = "PURPLE"
    /\ tray_menu = [conn |-> TRUE, mic |-> FALSE]
    /\ ws = 1
    /\ connected = TRUE
    /\ running = TRUE
    /\ obsws = TRUE
    /\ open = {1}
    /\ pc = [t \in Threads |-> IF t = "loop" THEN "pollcheck" ELSE "idle"]
    /\ ret = [t \in Threads |-> IF t = "loop" THEN "closed" ELSE "idle"]
    /\ dws = [t \in Threads |-> None]
    /\ cval = [t \in Threads |-> t = "loop"]
    /\ cws = None
    /\ obs_up = TRUE
    /\ was_obs_running = TRUE
    /\ result = "None"
    /\ inputs = << >>
    /\ mic_inputs = << >>
    /\ idx = 1
    /\ tk_branch = "connect"
    /\ tk_conn = <<TRUE>>
    /\ tk_state = << >>
    /\ tk_polls = 0
    /\ tk_hs = 1
    /\ pl_listed = FALSE
    /\ pl_mutes = 0
    /\ pl_fault = "none"
    /\ sig_conn = TRUE
    /\ sig_state = "None"
    /\ sig_queued = << >>

\* get_input_list answered with any list within the bound
poll_list == \E lst \in HostInputLists : list_inputs(lst)

\* _poll_mute has returned; the loop comes to line 182 again
poll_again ==
    /\ pc["loop"] = "p_ret"
    /\ Goto("loop", "pollcheck")
    /\ result' = "None"
    /\ inputs' = << >>
    /\ mic_inputs' = << >>
    /\ idx' = 1
    /\ tk_polls' = 0
    /\ pl_listed' = FALSE
    /\ pl_mutes' = 0
    /\ pl_fault' = "none"
    /\ UNCHANGED <<ovVars, mgrVars, ret, dws, cval, appVars, histAnim, histSig>>
    /\ UNCHANGED <<cws, obs_up, was_obs_running>>
    /\ UNCHANGED <<tk_branch, tk_conn, tk_state, tk_hs>>

NextPoll == l_pollcheck \/ p_check \/ poll_list \/ p_mute \/ poll_again

SpecPoll == InitPoll /\ [][NextPoll]_vars

(***************************************************************************)
(* The overlay on its own: frames of the timer, with show, hide and        *)
(* set_state arriving between them in any order.                           *)
(***************************************************************************)
restVars == <<mgrVars, thrVars, loopVars, appVars, tickVars, histSig>>

Frame ==
    /\ frames < MaxFrames
    /\ animate
    /\ frames' = frames + 1
    /\ since' = since + 1
    /\ UNCHANGED <<startDist, restVars>>

CallSetState ==
    \E b \in BOOLEAN :
        /\ set_state(b)
        /\ since' = 0
        /\ startDist' = FAbs(ExactAdd(target_live', FNeg(display_live)))
        /\ UNCHANGED <<frames, restVars>>

CallShow == show /\ UNCHANGED <<histAnim, restVars>>

CallHide == hide /\ UNCHANGED <<histAnim, restVars>>

NextAnim == Frame \/ CallSetState \/ CallShow \/ CallHide

SpecAnim == Init /\ [][NextAnim]_vars

(***************************************************************************)
(* The program while nobody quits: the polling thread and the main loop,   *)
(* each scheduled again and again by the operating system.                 *)
(***************************************************************************)
LoopDisconnect == d_flag("loop") \/ d_read("loop") \/ d_clear("loop") \/ d_close("loop")

LoopCallbacks == conn_write("loop") \/ conn_idle("loop")

\* one step of the thread that runs OBSManager._loop
LoopStep ==
    \/ l_tick \/ l_reconcile \/ l_closed \/ l_appeared \/ l_pollcheck
    \/ c_open \/ c_store \/ c_flag
    \/ LoopDisconnect
    \/ p_check \/ p_list \/ list_fault \/ p_mute \/ p_ret
    \/ LoopCallbacks \/ state_write \/ state_idle

\* one step of the Tk main loop
MainStep ==
    \/ m_show \/ m_hide \/ m_tray_menu \/ m_update_ui \/ m_ui_icon \/ m_ui_menu

NextRun ==
    \/ l_tick \/ l_reconcile \/ l_closed \/ l_appeared \/ l_pollcheck
    \/ c_open \/ c_store \/ c_flag
    \/ LoopDisconnect
    \/ p_check \/ p_list \/ list_fault \/ p_mute \/ p_ret
    \/ LoopCallbacks \/ state_write \/ state_idle
    \/ m_show \/ m_hide \/ m_tray_menu \/ m_update_ui \/ m_ui_icon \/ m_ui_menu

SpecRun == Init /\ [][NextRun]_vars /\ WF_vars(LoopStep) /\ WF_vars(MainStep)

(***************************************************************************)
(* Claims about _poll_mute (checked under SpecPoll).                       *)
(***************************************************************************)
\* _poll_mute is about to return having had get_input_list answered
PollDone == pc["loop"] = "p_ret" /\ pl_listed

Permute(lst, f) == [i \in DOMAIN lst |-> lst[f[i]]]

\* lst with the mute flags of its non-microphone inputs replaced by flags
WithOtherFlags(lst, flags) ==
    [i \in DOMAIN lst |->
        IF IsMicKind(lst[i].kind) THEN lst[i]
        ELSE [lst[i] EXCEPT !.muted = flags[i]]]

\* C1: when the list has a microphone-kind input and no request fails,
\* _poll_mute returns True iff no microphone-kind input is muted; the value
\* is the same for every permutation of the list and for every choice of the
\* mute flags of the other inputs.
C1_LiveIffNoMicMuted ==
    (PollDone /\ pl_fault = "none" /\ MicInputs(inputs) # << >>) =>
        /\ result \in {"True", "False"}
        /\ (result = "True") <=>
               \A i \in DOMAIN inputs :
                   IsMicKind(inputs[i].kind) => ~inputs[i].muted
        /\ \A f \in Permutations(DOMAIN inputs) :
               PollValue(Permute(inputs, f)) = (result = "True")
        /\ \A flags \in [DOMAIN inputs -> BOOLEAN] :
               PollValue(WithOtherFlags(inputs, flags)) = (result = "True")

\* a muted non-microphone input between two live microphones: True
C1_Witness ==
    /\ PollDone
    /\ pl_fault = "none"
    /\ result = "True"
    /\ Len(inputs) = 3
    /\ Len(mic_inputs) = 2
    /\ ~IsMicKind(inputs[2].kind)
    /\ inputs[2].muted

\* C3: when the list has no microphone-kind input, a poll whose list request
\* was answered returns False, whatever the other inputs' mute flags, and
\* makes no get_input_mute request.
C3_NoMicIsMuted ==
    (PollDone /\ MicInputs(inputs) = << >>) =>
        /\ result = "False"
        /\ pl_mutes = 0
        /\ pl_fault = "none"

\* two inputs, neither of microphone kind, one of them not muted
C3_Witness ==
    /\ PollDone
    /\ Len(inputs) = 2
    /\ mic_inputs = << >>
    /\ ~inputs[1].muted
    /\ inputs[2].muted
    /\ result = "False"

(***************************************************************************)
(* Claims about the connection manager (checked under Spec).               *)
(***************************************************************************)
\* the loop is between two ticks, or has left the while loop
TickOver == pc["loop"] \in {"idle", "done"}

\* every open session is one that a stop() in progress is about to close
OnlyStopHolds == open \subseteq {dws["quit"]}

\* what _visible will be once the main loop has run the callbacks of q
RECURSIVE VisibleAfter(_, _)
VisibleAfter(q, v) ==
    IF q = << >> THEN v
    ELSE VisibleAfter(Tail(q),
                      IF Head(q) = "show" THEN TRUE
                      ELSE IF Head(q) = "hide" THEN FALSE
                      ELSE v)

\* the loop leaves line 183 in this step
PollReturns == pc["loop"] = "p_ret" /\ pc'["loop"] # "p_ret"

C4_AtMostOneSession == Cardinality(open) <= 1

\* C8: a tick that finds the manager connected and the host gone ends with no
\* session held (the session is closed, or a concurrent stop() has taken it to
\* close it), the manager disconnected, connectivity=false raised and nothing
\* else, no poll and no mute-state signal; once the main loop has run the
\* queued callbacks the overlay is hidden.
C8_HostGoneTearsDown ==
    (tk_branch = "disconnect" /\ TickOver) =>
        /\ ws = None
        /\ ~connected
        /\ OnlyStopHolds
        /\ tk_conn # << >>
        /\ \A i \in DOMAIN tk_conn : ~tk_conn[i]
        /\ tk_polls = 0
        /\ tk_state = << >>
        /\ mainAlive => ~VisibleAfter(queue, visible)

\* the tick is over, the main loop has run hide, no stop() was called
C8_Witness ==
    /\ tk_branch = "disconnect"
    /\ pc["loop"] = "idle"
    /\ pc["quit"] = "idle"
    /\ tk_conn = <<FALSE, FALSE>>
    /\ queue = << >>
    /\ ~visible
    /\ open = {}

\* C9: when get_input_list fails, _poll_mute returns None with the session
\* torn down (closed, or taken by a concurrent stop() to close it), the
\* manager disconnected and connectivity=false raised; the tick ends
\* without a mute-state signal.
C9_ListFaultTearsDown ==
    /\ [](  (pc["loop"] = "p_ret" /\ pl_fault = "list") =>
                /\ result = "None"
                /\ ws = None
                /\ ~connected
                /\ OnlyStopHolds
                /\ tk_conn # << >> /\ tk_conn[Len(tk_conn)] = FALSE
                /\ tk_state = << >>)
    /\ [][(PollReturns /\ pl_fault = "list") =>
              (pc'["loop"] = "idle" /\ tk_state' = << >>)]_vars

\* the list request failed in the tick that had just connected
C9_Witness ==
    /\ pc["loop"] = "p_ret"
    /\ pl_fault = "list"
    /\ tk_conn = <<TRUE, FALSE>>
    /\ pc["quit"] = "idle"
    /\ open = {}

\* C10: once stop() has returned and the loop has exited, no session is open
\* and the manager is not connected.
C10_StopReleases ==
    (pc["quit"] \in {"q_destroy", "done"} /\ pc["loop"] = "done") =>
        /\ open = {}
        /\ ws = None
        /\ ~connected

(***************************************************************************)
(* Claims about the overlay's animation (checked under SpecAnim).          *)
(***************************************************************************)
InUnit(x) == FLe(ZERO, x) /\ FLe(x, ONE)

\* exact |a - b|
Dist(a, b) == FAbs(ExactAdd(a, FNeg(b)))

\* d1 is d0 moved toward t: not away from it and not beyond it
Toward(d0, d1, t) ==
    /\ FLe(d0, t) => (FLe(d0, d1) /\ FLe(d1, t))
    /\ FLe(t, d0) => (FLe(t, d1) /\ FLe(d1, d0))
    /\ MagLE(Dist(t, d1), Dist(t, d0))

\* the most by which a rounded double sum below 1 can exceed the exact one
RoundingSlack == Mag(0, 4)

\* C5 as stated: every frame leaves displayLevel in [0,1], moves it toward
\* targetLevel, never away and never beyond, and by at most step.
C5_AtMostStep ==
    [][Frame => /\ InUnit(display_live')
                /\ Toward(display_live, display_live', target_live)
                /\ MagLE(Dist(display_live', display_live), STEP)]_vars

\* C5 amended: every frame leaves displayLevel in [0,1] and moves it toward
\* targetLevel, never away and never beyond, by at most step plus the
\* rounding error of one double addition (2^-55).
C5_BoundedChase ==
    [][Frame => /\ InUnit(display_live')
                /\ Toward(display_live, display_live', target_live)
                /\ MagLE(Dist(display_live', display_live),
                         MagAdd(STEP, RoundingSlack))]_vars

\* three frames after set_state(True) at level 0: 0.1, 0.2, 0.30000000000000004
C5_Witness ==
    /\ target_live = ONE
    /\ startDist = ONE
    /\ since = 3
    /\ display_live = Mag(161061273, 161061280)

\* ceil(x / s) for magnitudes x and s > 0
RECURSIVE CeilDiv(_, _)
CeilDiv(x, s) ==
    IF FIsZero(x) THEN 0
    ELSE IF MagLE(x, s) THEN 1
    ELSE 1 + CeilDiv(MagSub(x, s), s)

\* C6 as stated: ceil(|target - display| / step) frames after targetLevel was
\* last set, displayLevel equals targetLevel, and it stays equal.
C6_WithinCeil ==
    since >= CeilDiv(startDist, STEP) => display_live = target_live

\* C6 amended: ceil(|target - display| / step) + 1 frames after targetLevel
\* was last set (11 frames for a full transition), displayLevel equals
\* targetLevel, and it stays equal until targetLevel is set again.
C6_WithinCeilPlusOne ==
    since >= CeilDiv(startDist, STEP) + 1 => display_live = target_live

\* a full 0 -> 1 transition, complete at the eleventh frame
C6_Witness ==
    /\ startDist = ONE
    /\ since = 11
    /\ target_live = ONE
    /\ display_live = ONE

\* the sum the code accumulates: n additions of dt to 0.0
RECURSIVE PhaseAfter(_)
PhaseAfter(n) == IF n = 0 THEN ZERO ELSE FAdd(PhaseAfter(n - 1), DT)

\* C7 as stated: every frame advances breathePhase and runs the chase
\* whether the overlay is visible or not, show and hide leave the animation
\* state alone, and after N frames breathePhase = N * dt.
C7_PhaseIsNTimesDt ==
    /\ [](breathe_t = FTimes(frames, DT))
    /\ [][Frame => /\ breathe_t' = FAdd(breathe_t, DT)
                   /\ display_live' = ChaseLevel(display_live, target_live)]_vars
    /\ [][visible' # visible =>
            UNCHANGED <<breathe_t, display_live, target_live>>]_vars

\* C7 amended: every frame advances breathePhase and runs the chase whether
\* the overlay is visible or not, show and hide leave the animation state
\* alone, and after N frames breathePhase is the sum of N double additions
\* of dt (N * dt up to rounding), whatever the history of show and hide.
C7_PhaseIgnoresVisibility ==
    /\ [](breathe_t = PhaseAfter(frames))
    /\ [][Frame => /\ breathe_t' = FAdd(breathe_t, DT)
                   /\ display_live' = ChaseLevel(display_live, target_live)]_vars
    /\ [][visible' # visible =>
            UNCHANGED <<breathe_t, display_live, target_live>>]_vars

\* shown after a frame that ran hidden, in the middle of a fade
C7_Witness ==
    /\ frames >= 6
    /\ visible
    /\ ~drawn
    /\ FLt(ZERO, display_live)
    /\ FLt(display_live, ONE)

(***************************************************************************)
(* Claims about the loop while nobody quits (checked under SpecRun).       *)
(***************************************************************************)
\* the loop leaves line 167 in this step, disconnected and with the host up
ReconcilesDown ==
    /\ pc["loop"] = "reconcile"
    /\ pc'["loop"] # "reconcile"
    /\ obs_up
    /\ ~connected

\* _connect has just made the manager connected and raised its signal
JustConnected == pc["loop"] = "conn_write" /\ cval["loop"]

\* C11 as stated: the loop never halts, every tick comes to its end, a tick
\* that starts disconnected with the host present calls _connect and makes a
\* handshake attempt, and a handshake that succeeds leaves the manager
\* connected with connectivity=true raised in that tick.
C11_AlwaysAttempts ==
    /\ [](pc["loop"] # "done")
    /\ []<>(pc["loop"] = "idle")
    /\ [][ReconcilesDown => pc'["loop"] = "c_open"]_vars
    /\ []((TickOver /\ tk_branch = "connect") => tk_hs >= 1)
    /\ [](JustConnected =>
             (connected /\ Answers /\ tk_conn[Len(tk_conn)] = TRUE))

\* C11 amended: as above, but the handshake attempt is made only when the
\* protocol client library was imported; without it _connect returns at
\* once and the manager stays disconnected.
C11_AttemptsWithLibrary ==
    /\ [](pc["loop"] # "done")
    /\ []<>(pc["loop"] = "idle")
    /\ [][ReconcilesDown => pc'["loop"] = "c_open"]_vars
    /\ []((TickOver /\ tk_branch = "connect") =>
             IF obsws THEN tk_hs >= 1 ELSE (tk_hs = 0 /\ ~connected))
    /\ [](JustConnected =>
             (connected /\ Answers /\ tk_conn[Len(tk_conn)] = TRUE))

\* a list fault tore the session down, the next tick's handshake succeeded
C11_Witness ==
    /\ JustConnected
    /\ tk_branch = "connect"
    /\ was_obs_running
    /\ tk_hs = 1
    /\ connected
    /\ visible

(***************************************************************************)
(* Claims about the coordinator.                                           *)
(***************************************************************************)
\* the main loop takes the callback cb from its idle queue in this step
Runs(cb) ==
    /\ queue # << >>
    /\ Head(queue) = cb
    /\ queue' = Tail(queue)

\* every connectivity signal raised so far has been queued and handled
ConnHandled ==
    /\ mainAlive
    /\ \A t \in Threads : pc[t] \notin {"conn_write", "conn_idle"}
    /\ \A i \in DOMAIN queue : queue[i] \notin {"show", "hide"}

\* q2 is q1 with callbacks added at its end
Extends(q1, q2) ==
    /\ Len(q2) >= Len(q1)
    /\ SubSeq(q2, 1, Len(q1)) = q1

\* C12: the handler of connectivity=true leaves the overlay visible and the
\* handler of connectivity=false leaves it hidden, a repeated one changes
\* nothing; the queue is first in, first out; once every raised signal has
\* been handled the overlay is visible iff the last raised signal was true.
C12_VisibleFollowsSignal ==
    /\ [](ConnHandled => (visible = sig_conn))
    /\ [][Runs("show") => (visible' /\ (visible => UNCHANGED ovVars))]_vars
    /\ [][Runs("hide") => (~visible' /\ (~visible => UNCHANGED ovVars))]_vars
    /\ [][mainAlive' => (Extends(queue, queue') \/ queue' = Tail(queue))]_vars

\* a second connectivity=false (lines 120 and 174) handled while hidden
C12_Witness ==
    /\ ConnHandled
    /\ tk_conn = <<FALSE, FALSE>>
    /\ pc["loop"] = "idle"
    /\ ~visible
    /\ ~sig_conn
    /\ queue = << >>

\* every mute-state signal raised so far has been queued and handled
StateHandled ==
    /\ mainAlive
    /\ mpc = "idle"
    /\ pc["loop"] \notin {"state_write", "state_idle"}
    /\ \A i \in DOMAIN queue : queue[i] # "update_ui"

\* C13: once every raised mute-state signal has been handled, targetLevel is
\* 1 if the last raised signal was true and 0 if it was false, and the tray
\* tint and the status line show that same value.
C13_LastStateForwarded ==
    (StateHandled /\ sig_state # "None") =>
        /\ target_live = (IF sig_state = "True" THEN ONE ELSE ZERO)
        /\ ov_all_live = (sig_state = "True")
        /\ tray_icon = (IF sig_state = "True" THEN "PINK" ELSE "PURPLE")
        /\ tray_menu.mic = (sig_state = "True")

\* a live poll handled after a muted one
C13_Witness ==
    /\ StateHandled
    /\ sig_state = "True"
    /\ tk_state = <<TRUE>>
    /\ target_live = ONE
    /\ tray_icon = "PINK"
    /\ tray_menu.mic
    /\ queue = << >>

(***************************************************************************)
(* More claims about the overlay (checked under SpecAnim).                 *)
(***************************************************************************)
\* what a set_state call does to the overlay
OnlyTarget ==
    /\ target_live' = (IF ov_all_live' THEN ONE ELSE ZERO)
    /\ UNCHANGED <<display_live, breathe_t, visible, drawn>>

\* C14 as stated: set_state(b) sets targetLevel to 1 if b else 0 and leaves
\* displayLevel and breathePhase alone; displayLevel changes only in a frame
\* and then by at most step.
C14_OnlyFramesMoveByStep ==
    /\ [][CallSetState => OnlyTarget]_vars
    /\ [][display_live' # display_live =>
            (Frame /\ MagLE(Dist(display_live', display_live), STEP))]_vars

\* C14 amended: set_state(b) sets targetLevel to 1 if b else 0 and leaves
\* displayLevel and breathePhase alone; displayLevel changes only in a frame,
\* by one application of the chase, which is at most step plus the rounding
\* error of one double addition (2^-55).
C14_OnlyFramesMove ==
    /\ [][CallSetState => OnlyTarget]_vars
    /\ [][display_live' # display_live =>
            /\ Frame
            /\ display_live' = ChaseLevel(display_live, target_live)
            /\ MagLE(Dist(display_live', display_live),
                     MagAdd(STEP, RoundingSlack))]_vars

\* set_state(False) has just arrived in the middle of a fade toward 1
C14_Witness ==
    /\ since = 0
    /\ frames >= 3
    /\ target_live = ZERO
    /\ FLt(ZERO, display_live)
    /\ FLt(display_live, ONE)
    /\ startDist = display_live

(***************************************************************************)
(* Claims about the handshake (checked under SpecRun).                     *)
(***************************************************************************)
\* the number of connectivity=true signals in a tick's signals
RECURSIVE Successes(_)
Successes(sigs) ==
    IF sigs = << >> THEN 0
    ELSE (IF Head(sigs) THEN 1 ELSE 0) + Successes(Tail(sigs))

\* a handshake attempt of the tick failed
HandshakeFailed == tk_hs > Successes(tk_conn)

\* C15: a tick in which a handshake attempt failed ends with the manager
\* disconnected and no session, no connectivity=true and no mute-state
\* signal raised in it, and the overlay hidden once the queue is handled.
C15_FailedHandshakeSilent ==
    (TickOver /\ HandshakeFailed) =>
        /\ ~connected
        /\ ws = None
        /\ open = {}
        /\ \A i \in DOMAIN tk_conn : ~tk_conn[i]
        /\ tk_state = << >>
        /\ tk_polls = 0
        /\ ~VisibleAfter(queue, visible)

\* the same for a tick whose only handshake attempt failed
C15_OnlyAttemptFailed ==
    (TickOver /\ HandshakeFailed /\ tk_hs = 1) =>
        /\ ~connected
        /\ ws = None
        /\ open = {}
        /\ tk_conn = << >>
        /\ tk_state = << >>
        /\ tk_polls = 0
        /\ ~VisibleAfter(queue, visible)

\* C16: no tick makes more than one handshake attempt.
C16_OneAttemptPerTick == tk_hs <= 1

\* C16 for the ticks in which the host was already seen running before
C16_OneAttemptLater ==
    [][(pc["loop"] = "appeared" /\ was_obs_running) =>
            pc'["loop"] # "c_open"]_vars

(***************************************************************************)
(* Claims about the tick (checked under Spec).                             *)
(***************************************************************************)
\* the loop leaves line 182 in this step
LeavesPollCheck == pc["loop"] = "pollcheck" /\ pc'["loop"] # "pollcheck"

C18_OverlayOnlyFromMain ==
    [][ovVars' # ovVars =>
          /\ mainAlive
          /\ mpc = "idle"
          /\ Runs("show") \/ Runs("hide") \/ Runs("update_ui")
          /\ UNCHANGED <<pc, mgrVars, loopVars>>]_vars

\* stop() has raised connectivity=false and returned; hide is still queued
C18_Witness ==
    /\ pc["quit"] = "q_destroy"
    /\ ~sig_conn
    /\ visible
    /\ queue # << >>
    /\ Head(queue) = "hide"

\* C19: each _update_ui the main loop runs applies the value of the signal
\* that queued it, and no step of the polling thread writes a field that the
\* main loop reads (MicBuddyApp._all_live, MicBuddyApp._connected).
C19_NoSharedField ==
    /\ [][(mainAlive /\ mpc = "idle" /\ Runs("update_ui")) =>
              ov_all_live' = Head(sig_queued)]_vars
    /\ [][pc'["loop"] # pc["loop"] =>
              UNCHANGED <<app_all_live, app_connected>>]_vars

(***************************************************************************)
(* The signal stream and the manager's state (checked under SpecRun).      *)
(***************************************************************************)
\* _connect raises connectivity=true in this step
RaisesTrue == pc["loop"] = "c_flag" /\ pc'["loop"] = "conn_write"

\* C20: while nobody quits, at the end of every tick the last raised
\* connectivity signal (false before any) equals _connected, _connected
\* holds exactly when self._ws holds an open session, and connectivity=true
\* is never raised when the last raised signal was true.
C20_SignalMatchesManager ==
    /\ [](TickOver =>
             /\ sig_conn = connected
             /\ connected = (ws # None)
             /\ open = (IF connected THEN {ws} ELSE {}))
    /\ [][RaisesTrue => (~sig_conn /\ sig_conn')]_vars

\* a tick of an established session that only polled
C20_Witness ==
    /\ pc["loop"] = "idle"
    /\ tk_branch = "skip"
    /\ tk_polls = 1
    /\ connected
    /\ sig_conn
    /\ ws \in open
    /\ visible

(***************************************************************************)
(* The indication across sessions (checked under SpecRun).                 *)
(***************************************************************************)
\* the session was opened in this tick and has not yet raised a mute state
FreshSession == Successes(tk_conn) > 0 /\ tk_state = << >>

\* C21, the status lines: the tray menu never shows "Waiting" with "Live".
C21_NeverWaitingAndLive == ~(~tray_menu.conn /\ tray_menu.mic)

\* C21, the overlay: once every raised signal has been handled, an overlay
\* that is visible with targetLevel 1 belongs to a session whose last poll
\* returned True.
C21_ShownLiveIsPolled ==
    (ConnHandled /\ StateHandled /\ visible /\ target_live = ONE) =>
        (sig_state = "True" /\ ~FreshSession)

\* C21: no live indication without a poll of the current session that
\* returned True: both of the above.
C21_NoStaleLive == C21_NeverWaitingAndLive /\ C21_ShownLiveIsPolled

====
